---- MODULE Spec2Model ----
(***************************************************************************)
(* Model of effluent/jet.py: the single-step jet integrator                *)
(* pipe_discharge_single_timestep, applied repeatedly to a jet state, and  *)
(* the entry point pipe_discharge / jet.                                   *)
(*                                                                         *)
(* Numbers.  The code computes in numpy float64.  The model computes in    *)
(* exact rational arithmetic extended with the IEEE-754 special values the *)
(* code can produce (signed zeros, signed infinities, NaN); numpy's        *)
(* default error state turns a division by zero into inf/NaN plus a        *)
(* warning, never into an exception.  A number is a pair <<n, d>>:         *)
(*    d > 0, n # 0, gcd(|n|, d) = 1   the rational n/d                     *)
(*    <<0, 1>>, <<0, -1>>             +0 and -0                            *)
(*    <<1, 0>>, <<-1, 0>>             +inf and -inf                        *)
(*    <<0, 0>>                        NaN                                  *)
(*    <<2, 0>>                        a value whose exact numerator or     *)
(*                                    denominator exceeds MaxMag: the      *)
(*                                    model does not follow such a step    *)
(* +, -, *, / are exact.  sqrt is exact on squares of rationals and        *)
(* otherwise rounded down to a finite precision (SqrtPrec), as float64's   *)
(* sqrt is exact when the root is representable and rounded otherwise.     *)
(***************************************************************************)
EXTENDS Integers, Sequences, FiniteSets, TLC

\* Largest numerator/denominator the model follows (TLC integers are 32 bit).
MaxMag == 1000000000
\* sqrt of a non-square n/d is floor(sqrt(n*d*SqrtPrec^2)) / (d*SqrtPrec).
SqrtPrec == 5
\* Longest chain of integrator calls the model follows.
MaxSteps == 2

---------------------------------------------------------------------------
\* Natural-number helpers.

Abs(i) == IF i < 0 THEN -i ELSE i

RECURSIVE GCD(_, _)
GCD(a, b) == IF b = 0 THEN a ELSE GCD(b, a % b)

\* a*b stays within MaxMag (a, b >= 0).
Fits(a, b) == a = 0 \/ b <= MaxMag \div a

RECURSIVE ISqrtIn(_, _, _)
\* Largest r in lo..hi with r*r <= k (binary search; hi*hi fits 32 bits).
ISqrtIn(k, lo, hi) ==
  IF lo >= hi THEN lo
  ELSE LET mid == (lo + hi + 1) \div 2
       IN  IF mid * mid <= k THEN ISqrtIn(k, mid, hi) ELSE ISqrtIn(k, lo, mid - 1)

ISqrt(k) == ISqrtIn(k, 0, 31623)

---------------------------------------------------------------------------
\* The number domain.

NaN == <<0, 0>>
PInf == <<1, 0>>
NInf == <<-1, 0>>
PZero == <<0, 1>>
NZero == <<0, -1>>
Unrep == <<2, 0>>

IsUnrep(x) == x = Unrep
IsNaN(x) == x = NaN
IsInf(x) == x = PInf \/ x = NInf
IsZero(x) == x[1] = 0 /\ x[2] # 0
IsFinite(x) == x[2] # 0

\* Sign bit as +1 / -1 (of a number that is neither NaN nor Unrep).
Sgn(x) == IF x[1] # 0 THEN (IF x[1] < 0 THEN -1 ELSE 1)
          ELSE (IF x[2] < 0 THEN -1 ELSE 1)

Inf(s) == IF s < 0 THEN NInf ELSE PInf
Zero(s) == IF s < 0 THEN NZero ELSE PZero

\* The rational s*a/b, a >= 0, b > 0, s in {1, -1}, reduced.
Mk(s, a, b) ==
  IF a = 0 THEN Zero(s)
  ELSE LET g == GCD(a, b) IN <<s * (a \div g), b \div g>>

\* The integer i and the fraction p/q (q > 0) as numbers.
Num(i) == Mk(IF i < 0 THEN -1 ELSE 1, Abs(i), 1)
Rat(p, q) == Mk(IF p < 0 THEN -1 ELSE 1, Abs(p), q)

NegOf(x) ==
  IF IsUnrep(x) \/ IsNaN(x) THEN x
  ELSE IF x[1] = 0 THEN <<0, -x[2]>>
  ELSE <<-x[1], x[2]>>

\* An operand is evaluated once: each operator below binds its operands'
\* values before it inspects them.
Neg(x) == CHOOSE r \in {NegOf(p) : p \in {x}} : TRUE

MulOf(x, y) ==
  IF IsUnrep(x) \/ IsUnrep(y) THEN Unrep
  ELSE IF IsNaN(x) \/ IsNaN(y) THEN NaN
  ELSE IF (IsInf(x) /\ IsZero(y)) \/ (IsZero(x) /\ IsInf(y)) THEN NaN
  ELSE IF IsInf(x) \/ IsInf(y) THEN Inf(Sgn(x) * Sgn(y))
  ELSE IF IsZero(x) \/ IsZero(y) THEN Zero(Sgn(x) * Sgn(y))
  ELSE LET a == Abs(x[1])
           b == x[2]
           c == Abs(y[1])
           e == y[2]
           g1 == GCD(a, e)
           g2 == GCD(c, b)
       IN  IF Fits(a \div g1, c \div g2) /\ Fits(b \div g2, e \div g1)
           THEN <<Sgn(x) * Sgn(y) * (a \div g1) * (c \div g2), (b \div g2) * (e \div g1)>>
           ELSE Unrep

Mul(x, y) == CHOOSE r \in {MulOf(p[1], p[2]) : p \in {<<x, y>>}} : TRUE

RecipOf(y) ==
  IF IsUnrep(y) \/ IsNaN(y) THEN y
  ELSE IF IsZero(y) THEN Inf(Sgn(y))
  ELSE IF IsInf(y) THEN Zero(Sgn(y))
  ELSE <<Sgn(y) * y[2], Abs(y[1])>>

Recip(y) == CHOOSE r \in {RecipOf(p) : p \in {y}} : TRUE

Div(x, y) == Mul(x, Recip(y))

AddOf(x, y) ==
  IF IsUnrep(x) \/ IsUnrep(y) THEN Unrep
  ELSE IF IsNaN(x) \/ IsNaN(y) THEN NaN
  ELSE IF IsInf(x) /\ IsInf(y) THEN (IF x = y THEN x ELSE NaN)
  ELSE IF IsInf(x) THEN x
  ELSE IF IsInf(y) THEN y
  ELSE IF IsZero(x) /\ IsZero(y) THEN (IF x = NZero /\ y = NZero THEN NZero ELSE PZero)
  ELSE IF IsZero(x) THEN y
  ELSE IF IsZero(y) THEN x
  ELSE LET g == GCD(x[2], y[2])
           p == y[2] \div g
           q == x[2] \div g
       IN  IF Fits(Abs(x[1]), p) /\ Fits(Abs(y[1]), q) /\ Fits(q, y[2])
           THEN LET num == x[1] * p + y[1] * q
                    r == Mk(IF num < 0 THEN -1 ELSE 1, Abs(num), q * y[2])
                IN  IF Abs(r[1]) <= MaxMag THEN r ELSE Unrep
           ELSE Unrep

Add(x, y) == CHOOSE r \in {AddOf(p[1], p[2]) : p \in {<<x, y>>}} : TRUE

Sub(x, y) == Add(x, Neg(y))

SqrtOf(x) ==
  IF IsUnrep(x) \/ IsNaN(x) THEN x
  ELSE IF IsZero(x) THEN x
  ELSE IF Sgn(x) < 0 THEN NaN
  ELSE IF IsInf(x) THEN PInf
  ELSE LET n == x[1]
           d == x[2]
           rn == ISqrt(n)
           rd == ISqrt(d)
       IN  IF rn * rn = n /\ rd * rd = d THEN <<rn, rd>>
           ELSE IF Fits(n, d) /\ Fits(n * d, SqrtPrec * SqrtPrec) /\ Fits(d, SqrtPrec)
                THEN Mk(1, ISqrt(n * d * SqrtPrec * SqrtPrec), d * SqrtPrec)
                ELSE Unrep

Sqrt(x) == CHOOSE r \in {SqrtOf(p) : p \in {x}} : TRUE

RECURSIVE CmpPos(_, _, _, _)
\* -1, 0, 1 as a/b <, =, > c/e (a, c >= 0; b, e > 0), without forming products.
CmpPos(a, b, c, e) ==
  LET qa == a \div b
      qc == c \div e
      ra == a % b
      rc == c % e
  IN  IF qa # qc THEN (IF qa < qc THEN -1 ELSE 1)
      ELSE IF ra = 0 /\ rc = 0 THEN 0
      ELSE IF ra = 0 THEN -1
      ELSE IF rc = 0 THEN 1
      ELSE CmpPos(e, rc, b, ra)

\* -1, 0, 1 as x <, =, > y, for numbers that are neither NaN nor Unrep.
CmpOf(x, y) ==
  IF IsInf(x) \/ IsInf(y)
  THEN (IF x = y THEN 0
        ELSE IF x = NInf \/ y = PInf THEN -1 ELSE 1)
  ELSE IF IsZero(x) /\ IsZero(y) THEN 0
  ELSE IF IsZero(x) THEN -Sgn(y)
  ELSE IF IsZero(y) THEN Sgn(x)
  ELSE IF Sgn(x) # Sgn(y) THEN Sgn(x)
  ELSE Sgn(x) * CmpPos(Abs(x[1]), x[2], Abs(y[1]), y[2])

Cmp(x, y) == CHOOSE r \in {CmpOf(p[1], p[2]) : p \in {<<x, y>>}} : TRUE

\* IEEE comparisons: every comparison with NaN is false.
Ordered(x, y) == ~IsNaN(x) /\ ~IsNaN(y) /\ ~IsUnrep(x) /\ ~IsUnrep(y)
Lt(x, y) == Ordered(x, y) /\ Cmp(x, y) < 0
Le(x, y) == Ordered(x, y) /\ Cmp(x, y) <= 0
Gt(x, y) == Lt(y, x)
Ge(x, y) == Le(y, x)
Eq(x, y) == Ordered(x, y) /\ Cmp(x, y) = 0

---------------------------------------------------------------------------
\* pipe_discharge_single_timestep(dt, t, m, c, rho, u, v, w, h, b, x, y, z,
\* ua, va, rho_a).  The jet state s is the record of the arguments t .. z,
\* the ambient sample a the record of ua, va, rho_a.  One operator per
\* assignment of the function body, in the code's order of evaluation.

wa == Num(0)
g == Rat(981, 100)
\* np.pi and np.sqrt(2) are irrational; float64 holds roundings of them, and
\* so does the model.
pi == Rat(22, 7)
alpha_s == Mul(Sqrt(Num(2)), Rat(57, 1000))

\* Each operator reads the function's local variables L assigned so far.
t_new(L) == Add(L.t, L.dt)

vel(L) == Sqrt(Add(Add(Mul(L.u, L.u), Mul(L.v, L.v)), Mul(L.w, L.w)))

\* np.dot([ua, va, wa], [u, v, w])
dot(L) == Add(Add(Mul(L.ua, L.u), Mul(L.va, L.v)), Mul(wa, L.w))

\* Faulty variant of delta_u: the ambient projection added, not subtracted.
delta_u_sum(L) == Add(L.vel, Div(dot(L), L.vel))

delta_u(L) == Sub(L.vel, Div(dot(L), L.vel))

dm(L) ==
  Mul(Mul(Mul(Mul(Mul(Mul(Num(2), pi), alpha_s), L.b), L.h), L.delta_u), L.dt)

\* Faulty variant of m_new: the entrained mass removed, not added.
m_new_sub(L) == Sub(L.m, L.dm)

m_new(L) == Add(L.m, L.dm)

\* Faulty variant of rho_new: normalised by the old mass.
rho_new_oldmass(L) == Div(Add(Mul(L.m, L.rho), Mul(L.dm, L.rho_a)), L.m)

rho_new(L) == Div(Add(Mul(L.m, L.rho), Mul(L.dm, L.rho_a)), L.m_new)

\* Faulty variant of c_new: not diluted by the entrained mass.
c_new_undiluted(L) == Div(Mul(L.m, L.c), L.m)

c_new(L) == Div(Mul(L.m, L.c), L.m_new)

u_new(L) == Div(Add(Mul(L.m, L.u), Mul(L.dm, L.ua)), L.m_new)

v_new(L) == Div(Add(Mul(L.m, L.v), Mul(L.dm, L.va)), L.m_new)

\* The code does not divide this sum by m_new.
w_new(L) ==
  Add(Mul(L.m, L.w),
      Mul(Mul(Mul(L.m_new, Div(Sub(L.rho_new, L.rho_a), L.rho_new)), g), L.dt))

vel_new(L) ==
  Sqrt(Add(Add(Mul(L.u_new, L.u_new), Mul(L.v_new, L.v_new)),
           Mul(L.w_new, L.w_new)))

h_new(L) == Mul(Div(L.vel_new, L.vel), L.h)

b_new(L) == Sqrt(Div(L.m_new, Mul(Mul(L.rho_new, pi), L.h_new)))

x_new(L) == Add(L.x, Mul(L.u_new, L.dt))
y_new(L) == Add(L.y, Mul(L.v_new, L.dt))
z_new(L) == Add(L.z, Mul(L.w_new, L.dt))

\* The locals L extended by the assignments F makes from them.
Assign(F(_), L) == CHOOSE r \in {F(x) @@ x : x \in {L}} : TRUE

\* The locals after the last assignment, from the arguments: time step d,
\* jet state s (t .. z) and ambient sample a (ua, va, rho_a).
Locals(d, s, a) ==
  Assign(LAMBDA L : [x_new |-> x_new(L), y_new |-> y_new(L), z_new |-> z_new(L)],
  Assign(LAMBDA L : [b_new |-> b_new(L)],
  Assign(LAMBDA L : [h_new |-> h_new(L)],
  Assign(LAMBDA L : [vel_new |-> vel_new(L)],
  Assign(LAMBDA L : [w_new |-> w_new(L)],
  Assign(LAMBDA L : [rho_new |-> rho_new(L), c_new |-> c_new(L),
                     u_new |-> u_new(L), v_new |-> v_new(L)],
  Assign(LAMBDA L : [m_new |-> m_new(L)],
  Assign(LAMBDA L : [dm |-> dm(L)],
  Assign(LAMBDA L : [delta_u |-> delta_u(L)],
  Assign(LAMBDA L : [t_new |-> t_new(L), vel |-> vel(L)],
         [dt |-> d] @@ s @@ a))))))))))

\* The returned tuple; the function has no other exit.
Returned(L) ==
  [t |-> L.t_new, m |-> L.m_new, c |-> L.c_new, rho |-> L.rho_new,
   u |-> L.u_new, v |-> L.v_new, w |-> L.w_new, h |-> L.h_new,
   b |-> L.b_new, x |-> L.x_new, y |-> L.y_new, z |-> L.z_new]

pipe_discharge_single_timestep(d, s, a) ==
  CHOOSE r \in {Returned(L) : L \in {Locals(d, s, a)}} : TRUE

\* jet(time, density): a dataset whose time coordinate and density variable
\* are both the empty list, whatever the arguments.
jet(time, density) == [time |-> << >>, density |-> << >>]

\* pipe_discharge(): no argument, no call of the integrator.
pipe_discharge == jet("None", "None")

---------------------------------------------------------------------------
\* The state machine: one release's chain of integrator calls, and the call
\* of pipe_discharge.

VARIABLES
  dt,        \* the time step passed to every call of the chain
  traj,      \* <<seed, state after call 1, state after call 2, ...>>
  ambs,      \* ambs[i]: the ambient sample passed to call i
  discharge  \* what pipe_discharge() returned, once it has

vars == <<dt, traj, ambs, discharge>>

Fields == {"t", "m", "c", "rho", "u", "v", "w", "h", "b", "x", "y", "z"}

Representable(s) == \A f \in Fields : ~IsUnrep(s[f])

\* Inputs.  The seed radius and the time step lie on the grid on which
\* 2*pi*alpha_s*b*h*dt and g*dt are 1, which keeps a step's exact values
\* small: b = g / (2*pi*alpha_s), h = 1, |dt| = 1/g.
SeedRadius == Div(g, Mul(Mul(Num(2), pi), alpha_s))
UnitStep == Recip(g)

SeedVelocities ==
  {<<1, 0, 0>>, <<0, 0, 0>>, <<1, 1, 0>>, <<3, 0, 4>>, <<0, 0, 1>>}

Seeds ==
  {[t |-> Num(0), m |-> Num(m0), c |-> Num(1), rho |-> Num(r0),
    u |-> Num(q[1]), v |-> Num(q[2]), w |-> Num(q[3]),
    h |-> Num(1), b |-> SeedRadius,
    x |-> Num(0), y |-> Num(0), z |-> Num(0)] :
     m0 \in {1, 2}, r0 \in {1, 2}, q \in SeedVelocities}

TimeSteps == {UnitStep, Num(0), Neg(UnitStep)}

\* What the ambient sampler may return for a jet in state s: a point of a
\* small grid, or the jet's own horizontal velocity and density.
SampleVelocities == {<<0, 0>>, <<2, 0>>, <<3, 0>>, <<-1, 0>>, <<-1, 1>>}

Samples(s) ==
  {[ua |-> Num(q[1]), va |-> Num(q[2]), rho_a |-> Num(r)] :
     q \in SampleVelocities, r \in {1, 2}}
  \cup {[ua |-> s.u, va |-> s.v, rho_a |-> s.rho]}

Last == traj[Len(traj)]

Init ==
  /\ dt \in TimeSteps
  /\ traj \in {<<s>> : s \in Seeds}
  /\ ambs = << >>
  /\ discharge = [returned |-> FALSE, dataset |-> << >>]

\* One call of pipe_discharge_single_timestep on the latest state.
Step ==
  /\ ~discharge.returned
  /\ Len(ambs) < MaxSteps
  /\ \E a \in Samples(Last) :
       \E n \in {pipe_discharge_single_timestep(dt, Last, a)} :
         /\ Representable(n)
         /\ traj' = Append(traj, n)
         /\ ambs' = Append(ambs, a)
  /\ UNCHANGED <<dt, discharge>>

\* The call of pipe_discharge().
Discharge ==
  /\ ~discharge.returned
  /\ ambs = << >>
  /\ discharge' = [returned |-> TRUE, dataset |-> pipe_discharge]
  /\ UNCHANGED <<dt, traj, ambs>>

Next == Step \/ Discharge

Spec == Init /\ [][Next]_vars
---------------------------------------------------------------------------
\* Vocabulary of the properties.

\* The calls made so far; call i took traj[i] to traj[i + 1] under ambs[i].
Calls == 1..Len(ambs)
LocalsAt(i) == Locals(dt, traj[i], ambs[i])

Finite(s) == \A f \in Fields : IsFinite(s[f])
ZeroSpeed(s) == IsZero(s.u) /\ IsZero(s.v) /\ IsZero(s.w)
Positive(s) ==
  /\ Gt(s.m, PZero) /\ Gt(s.rho, PZero) /\ Gt(s.h, PZero) /\ Gt(s.b, PZero)
ValidSeed(s) == Finite(s) /\ Positive(s) /\ ~ZeroSpeed(s)

\* delta_u >= 0 at every call, from a positive (finite) radius and thickness,
\* dt > 0.
Entraining ==
  /\ Gt(dt, PZero)
  /\ \A i \in Calls :
       /\ Ge(LocalsAt(i).delta_u, PZero)
       /\ IsFinite(traj[i].b) /\ Gt(traj[i].b, PZero)
       /\ IsFinite(traj[i].h) /\ Gt(traj[i].h, PZero)

\* The sampler returned the jet's own horizontal velocity and density.
Matches(a, s) == Eq(a.ua, s.u) /\ Eq(a.va, s.v) /\ Eq(a.rho_a, s.rho)

\* Call i left mass, density, tracer and velocity alone and moved the
\* position by velocity * dt, with delta_u = 0.
SteadyAt(i) ==
  LET s == traj[i]
      n == traj[i + 1]
  IN  /\ Eq(LocalsAt(i).delta_u, PZero)
      /\ Eq(n.m, s.m) /\ Eq(n.rho, s.rho) /\ Eq(n.c, s.c)
      /\ Eq(n.u, s.u) /\ Eq(n.v, s.v) /\ Eq(n.w, traj[1].w)
      /\ Eq(n.x, Add(s.x, Mul(s.u, dt)))
      /\ Eq(n.y, Add(s.y, Mul(s.v, dt)))
      /\ Eq(n.z, Add(s.z, Mul(s.w, dt)))

\* The tracer of every state is in [0, seed tracer], never above the
\* preceding state's, and mass * tracer is the same in every state.
TracerBounded ==
  /\ \A k \in 1..Len(traj) : Ge(traj[k].c, PZero) /\ Le(traj[k].c, traj[1].c)
  /\ \A i \in Calls :
       /\ Le(traj[i + 1].c, traj[i].c)
       /\ Eq(Mul(traj[i + 1].m, traj[i + 1].c), Mul(traj[i].m, traj[i].c))

---------------------------------------------------------------------------
\* C1: every call with dt > 0 from a valid state that returns finite values
\* with new_mass # 0 returns
\* new_w = (m*w + m_new*((rho_new - rho_a)/rho_new)*g*dt) / m_new, the
\* vertical momentum divided by the new mass.
C1_VerticalVelocityIsMomentumOverMass ==
  \A i \in Calls :
    LET L == LocalsAt(i)
    IN  (/\ Gt(dt, PZero) /\ ValidSeed(traj[i])
         /\ Finite(traj[i + 1]) /\ ~IsZero(L.m_new))
        => Eq(traj[i + 1].w,
              Div(Add(Mul(L.m, L.w),
                      Mul(Mul(Mul(L.m_new,
                                  Div(Sub(L.rho_new, L.rho_a), L.rho_new)),
                              g),
                          dt)),
                  L.m_new))

\* C2: a step taken from a state of zero speed returns no state (it ends in
\* an error); so a zero-speed state is always the last of its trajectory.
C2_ZeroSpeedStepReturnsNothing ==
  \A k \in 1..Len(traj) : ZeroSpeed(traj[k]) => k = Len(traj)

\* C3: the trajectory pipe_discharge returns runs from the seed state to the
\* terminal state inclusive: it holds at least one state, with one density
\* per time.
C3_DischargeReturnsSeedToTerminal ==
  discharge.returned =>
    /\ Len(discharge.dataset.time) >= 1
    /\ Len(discharge.dataset.density) = Len(discharge.dataset.time)

\* C4: from a seed with positive mass, density, thickness, radius and nonzero
\* speed, with dt > 0 and every ambient density positive, every state of the
\* trajectory has positive mass, density, thickness and radius.
C4_PositivityInvariant ==
  (/\ ValidSeed(traj[1])
   /\ Gt(dt, PZero)
   /\ \A i \in Calls : Gt(ambs[i].rho_a, PZero))
  => \A k \in 1..Len(traj) : Positive(traj[k])

\* C5: along a trajectory with delta_u >= 0 at every step, dt > 0 and positive
\* radius and thickness, each state's mass is >= the preceding state's.
C5_MassMonotone ==
  Entraining => \A i \in Calls : Ge(traj[i + 1].m, traj[i].m)

\* C5 witness: two entraining steps, the first of which added mass.
C5_Witness ==
  /\ Len(ambs) = 2
  /\ Entraining
  /\ Gt(traj[2].m, traj[1].m)

HorizontalExact(s) ==
  /\ IsZero(s.w)
  /\ ~ZeroSpeed(s)
  /\ Eq(Mul(vel(s), vel(s)), Add(Mul(s.u, s.u), Mul(s.v, s.v)))

C7_DensityIsMassWeightedMean ==
  \A i \in Calls :
    LET s == traj[i]
        n == traj[i + 1]
        a == ambs[i]
        d == LocalsAt(i).dm
        mid == Div(Add(s.rho, a.rho_a), Num(2))
    IN  (Finite(s) /\ Gt(s.m, PZero) /\ Gt(d, PZero) /\ IsFinite(a.rho_a))
        => /\ Eq(n.m, Add(s.m, d))
           /\ Eq(n.rho, Div(Add(Mul(s.m, s.rho), Mul(d, a.rho_a)), n.m))
           /\ Lt(s.rho, a.rho_a) => (Lt(s.rho, n.rho) /\ Lt(n.rho, a.rho_a))
           /\ Lt(a.rho_a, s.rho) => (Lt(a.rho_a, n.rho) /\ Lt(n.rho, s.rho))
           /\ (Lt(d, s.m) /\ Lt(s.rho, a.rho_a)) => Lt(n.rho, mid)
           /\ (Lt(d, s.m) /\ Lt(a.rho_a, s.rho)) => Lt(mid, n.rho)

\* C7 witness: a step that entrained less than the jet's mass from a lighter
\* ambient.
C7_Witness ==
  \E i \in Calls :
    /\ Finite(traj[i]) /\ Gt(traj[i].m, PZero)
    /\ Gt(LocalsAt(i).dm, PZero) /\ Lt(LocalsAt(i).dm, traj[i].m)
    /\ Lt(ambs[i].rho_a, traj[i].rho)
    /\ Lt(traj[i + 1].rho, traj[i].rho)

\* C8 as stated (on trajectories of valid states, dt > 0): the tracer is in
\* [0, initial tracer], is <= the preceding state's tracer, and mass * tracer
\* is the same in every state.
C8_TracerBound_AsStated ==
  (/\ Gt(dt, PZero)
   /\ \A k \in 1..Len(traj) : ValidSeed(traj[k]))
  => TracerBounded

\* C8 amended: the same along trajectories with positive seed mass and
\* delta_u >= 0 at every step, dt > 0, positive radius and thickness.
C8_TracerBound ==
  (Finite(traj[1]) /\ Gt(traj[1].m, PZero) /\ Ge(traj[1].c, PZero) /\ Entraining)
  => TracerBounded

\* C8 witness: an entraining step that diluted the tracer.
C8_Witness ==
  /\ Len(ambs) >= 1
  /\ Finite(traj[1]) /\ Gt(traj[1].m, PZero) /\ Ge(traj[1].c, PZero)
  /\ Entraining
  /\ Lt(traj[2].c, traj[1].c)

\* C9 (on trajectories of finite states from a valid seed): with dt <= 0 no
\* step is executed and no new state produced; in every
\* trajectory each state's time is greater than the preceding state's.
C9_NonPositiveDtRejected ==
  (ValidSeed(traj[1]) /\ \A k \in 1..Len(traj) : Finite(traj[k])) =>
    /\ Le(dt, PZero) => Len(traj) = 1
    /\ \A i \in Calls : Gt(traj[i + 1].t, traj[i].t)
====
